---- MODULE Spec2Model ----
(***************************************************************************)
(* Dataset composition and size-aware batching of the fairseq fork:        *)
(*   - SentenceRankingTask.load_dataset (fairseq/tasks/sentence_ranking.py)*)
(*   - HubertPretrainingTask (fairseq/tasks/hubert_pretraining.py)         *)
(*   - the validation driver (fairseq_cli/validate.py)                     *)
(* The wrapper datasets, HubertDataset and the batch builder live in       *)
(* fairseq.data, which is not part of the source tree at hand; they are    *)
(* modelled from the design document (sections 4.2 - 4.5).                 *)
(***************************************************************************)
EXTENDS Integers, Sequences, FiniteSets, TLC

VARIABLES
    args,       \* the command line / task configuration (fixed after Init)
    corpus,     \* the on-disk corpus of the split (fixed after Init)
    modelMax,   \* max_positions() of every model of the loaded ensemble
    rng,        \* state of the process-wide numpy random generator
    pc,         \* position of the driver: start, loaded, iterating, done, failed
    dataset,    \* self.datasets[split], as built by load_dataset
    effMax,     \* the effective max_positions handed to the batch builder
    error,      \* the exception that ended the run, if any
    visible,    \* the indices left by filter_indices_by_size, in order
    excluded,   \* number of examples reported as skipped for their size
    batches,    \* the frozen batch sampler: the builder's batches
    itr,        \* the epoch iterator: batches still to be handed out
    handed,     \* batches already handed to valid_step, in order
    item,       \* the example realised by the last dataset access
    prevItem,   \* the example realised by the access before, same index
    run,        \* 1 for the first run, 2 for the re-run of the same command
    first,      \* what the first run produced (kept for the re-run)
    dictionaries, \* the task's dictionaries, one per label stream
    fetched,    \* per batch of the epoch, the elements its worker has realised
    sample      \* the mini-batch collated by the last collater call

vars == <<args, corpus, modelMax, rng, pc, dataset, effMax, error, visible,
          excluded, batches, itr, handed, item, prevItem, run, first,
          dictionaries, fetched, sample>>

----------------------------------------------------------------------------
(* Bounds of the model *)

\* number of examples of a split in the validation runs
NumExamples == 3
\* largest size of an example in the validation runs
MaxSize == 3
\* largest raw length of a token sequence in the sentence-ranking corpora
MaxLen == 2

----------------------------------------------------------------------------
(* Python values *)

\* Python's None, for an option that is not set
None == -1
\* the bound method object that SentenceRankingTask.max_positions evaluates to
Method == -2
\* sys.maxsize
SysMaxsize == 2147483647

IsNumber(v) == v >= 0

NoError == [kind |-> "none", index |-> None, size |-> None]
TypeError == [kind |-> "TypeError", index |-> None, size |-> None]
LengthMismatchError == [kind |-> "LengthMismatchError", index |-> None, size |-> None]
OversizedExampleError(i, s) == [kind |-> "OversizedExampleError", index |-> i, size |-> s]
AttributeError == [kind |-> "AttributeError", index |-> None, size |-> None]
MisalignedCorpusError == [kind |-> "MisalignedCorpusError", index |-> None, size |-> None]
UnknownSymbolError == [kind |-> "UnknownSymbolError", index |-> None, size |-> None]

----------------------------------------------------------------------------
(* Sequences of numbers *)

Min(a, b) == IF a <= b THEN a ELSE b
Max(a, b) == IF a >= b THEN a ELSE b

RECURSIVE Sum(_)
Sum(s) == IF s = <<>> THEN 0 ELSE Head(s) + Sum(Tail(s))

RECURSIVE Flatten(_)
Flatten(ss) == IF ss = <<>> THEN <<>> ELSE Head(ss) \o Flatten(Tail(ss))

Range(s) == {s[p] : p \in DOMAIN s}

\* the indices 0 .. n-1 in their natural order (np.arange)
Arange(n) == [p \in 1..n |-> p - 1]

IsPermutation(s, n) == Len(s) = n /\ Range(s) = 0..(n - 1)

----------------------------------------------------------------------------
(* numpy's random generator: a small linear congruential generator stands  *)
(* for the Mersenne twister. np.random.seed(s) sets the state from s; each *)
(* draw reads the state and advances it.                                   *)

NumpySeedState(seed) == seed % 8
RngNext(s) == (5 * s + 3) % 8
RandInt(s, n) == s % n

Swap(p, i, j) == [p EXCEPT ![i] = p[j], ![j] = p[i]]

\* np.random.permutation(n): Fisher-Yates from the top position down
RECURSIVE FisherYates(_, _, _)
FisherYates(p, i, s) ==
    IF i <= 1 THEN p
    ELSE FisherYates(Swap(p, i, RandInt(s, i) + 1), i - 1, RngNext(s))

NumpyPermutation(s, n) == FisherYates(Arange(n), n, s)

----------------------------------------------------------------------------
(* Base indexed datasets and the wrapper datasets of fairseq.data.          *)
(* A dataset is a tree of wrappers over raw datasets; an access walks the  *)
(* tree, the size index is computed from the sizes of the wrapped dataset. *)

\* the token at position p of example i of raw dataset d (d = 0 is input0,
\* d = k is input<k>); distinct places hold distinct tokens
Token(d, i, p) == 100 * (d + 1) + 10 * i + p

RawDataset(d, lens) == [kind |-> "raw", id |-> d, lens |-> lens]
RawItem(ds, i) == [p \in 1..ds.lens[i + 1] |-> Token(ds.id, i, p)]

PrependTokenDataset(ds, token) ==
    [kind |-> "prepend", dataset |-> ds, token |-> token]
PrependItem(x, token) == <<token>> \o x
PrependSize(s) == s + 1

TruncateDataset(ds, truncation_length) ==
    [kind |-> "truncate", dataset |-> ds, truncation_length |-> truncation_length]
TruncateItemDropLast(x, k) == IF Len(x) > k THEN SubSeq(x, 1, Len(x) - 1) ELSE x
TruncateItem(x, k) == IF Len(x) > k THEN SubSeq(x, 1, k) ELSE x
TruncateSizeUnclipped(s, k) == s
TruncateSize(s, k) == Min(s, k)

ConcatSentencesDataset(a, b) == [kind |-> "concat", a |-> a, b |-> b]
ConcatItem(x, y) == x \o y
ConcatSize(sa, sb) == sa + sb

\* len(dataset)
RECURSIVE DatasetLen(_)
DatasetLen(ds) ==
    CASE ds.kind = "raw" -> Len(ds.lens)
      [] ds.kind = "concat" -> DatasetLen(ds.a)
      [] OTHER -> DatasetLen(ds.dataset)

\* dataset[i]: the realised example
RECURSIVE GetItem(_, _)
GetItem(ds, i) ==
    CASE ds.kind = "raw" -> RawItem(ds, i)
      [] ds.kind = "prepend" -> PrependItem(GetItem(ds.dataset, i), ds.token)
      [] ds.kind = "truncate" ->
            TruncateItem(GetItem(ds.dataset, i), ds.truncation_length)
      [] ds.kind = "concat" -> ConcatItem(GetItem(ds.a, i), GetItem(ds.b, i))

\* dataset.sizes[i]: the size index, from the wrapped sizes alone
RECURSIVE SizeOf(_, _)
SizeOf(ds, i) ==
    CASE ds.kind = "raw" -> ds.lens[i + 1]
      [] ds.kind = "prepend" -> PrependSize(SizeOf(ds.dataset, i))
      [] ds.kind = "truncate" ->
            TruncateSize(SizeOf(ds.dataset, i), ds.truncation_length)
      [] ds.kind = "concat" -> ConcatSize(SizeOf(ds.a, i), SizeOf(ds.b, i))

\* every concatenation in the tree joins datasets of the same length
RECURSIVE LengthsAgree(_)
LengthsAgreeOneSided(ds) ==
    CASE ds.kind = "raw" -> TRUE
      [] ds.kind = "concat" ->
            /\ LengthsAgree(ds.a) /\ LengthsAgree(ds.b)
            /\ DatasetLen(ds.a) <= DatasetLen(ds.b)
      [] OTHER -> LengthsAgree(ds.dataset)
LengthsAgree(ds) ==
    CASE ds.kind = "raw" -> TRUE
      [] ds.kind = "concat" ->
            /\ LengthsAgree(ds.a) /\ LengthsAgree(ds.b)
            /\ DatasetLen(ds.a) = DatasetLen(ds.b)
      [] OTHER -> LengthsAgree(ds.dataset)

\* every truncation length in the tree is a number (comparing a length with
\* anything else raises TypeError)
RECURSIVE WellTyped(_)
WellTyped(ds) ==
    CASE ds.kind = "raw" -> TRUE
      [] ds.kind = "concat" -> WellTyped(ds.a) /\ WellTyped(ds.b)
      [] ds.kind = "truncate" ->
            IsNumber(ds.truncation_length) /\ WellTyped(ds.dataset)
      [] OTHER -> WellTyped(ds.dataset)

----------------------------------------------------------------------------
(* SentenceRankingTask *)

\* SentenceRankingTask.max_positions(self): return self.max_positions, which
\* is the method itself (nothing sets an attribute of that name)
RankingMaxPositions == Method

\* input0, with the separator token in front when one is configured
InputZeroCut(a, c) ==
    LET pre == IF a.separator_token # None
               THEN PrependTokenDataset(RawDataset(0, c.input0), a.separator_token)
               ELSE RawDataset(0, c.input0)
    IN  IF a.max_option_length # None
        THEN TruncateDataset(pre, a.max_option_length) ELSE pre
InputZero(a, c) ==
    IF a.separator_token # None
    THEN PrependTokenDataset(RawDataset(0, c.input0), a.separator_token)
    ELSE RawDataset(0, c.input0)

\* option k after the init token and the option length limit
InputOptionTruncateFirst(a, c, k) ==
    LET raw == RawDataset(k, c.options[k])
        cut == IF a.max_option_length # None
               THEN TruncateDataset(raw, a.max_option_length) ELSE raw
    IN  IF a.init_token # None
        THEN PrependTokenDataset(cut, a.init_token) ELSE cut
InputOption(a, c, k) ==
    LET raw == RawDataset(k, c.options[k])
        pre == IF a.init_token # None
               THEN PrependTokenDataset(raw, a.init_token) ELSE raw
    IN  IF a.max_option_length # None
        THEN TruncateDataset(pre, a.max_option_length) ELSE pre

\* src_tokens[k-1] of load_dataset
SrcTokenSwapped(a, c, k) ==
    LET joined == ConcatSentencesDataset(InputZero(a, c), InputOption(a, c, k))
    IN  IF a.truncate_sequence
        THEN TruncateDataset(joined, RankingMaxPositions) ELSE joined
SrcToken(a, c, k) ==
    LET joined == ConcatSentencesDataset(InputOption(a, c, k), InputZero(a, c))
    IN  IF a.truncate_sequence
        THEN TruncateDataset(joined, RankingMaxPositions) ELSE joined

SrcTokens(a, c) == [k \in 1..a.num_classes |-> SrcToken(a, c, k)]

\* np.maximum.reduce over the options' sizes, for one index
RECURSIVE MaxOver(_)
MaxOver(s) == IF Len(s) = 1 THEN s[1] ELSE Max(Head(s), MaxOver(Tail(s)))

NestedSizesFirstOption(src, n) == [p \in 1..n |-> SizeOf(src[1], p - 1)]
NestedSizes(src, n) ==
    [p \in 1..n |-> MaxOver([k \in 1..Len(src) |-> SizeOf(src[k], p - 1)])]

\* with data_utils.numpy_seed(seed): np.random.permutation(n)
\* (r is the generator's state outside the with block)
ShuffleUnseeded(seed, r, n) == NumpyPermutation(r, n)
RECURSIVE RandomIndices(_, _, _)
RandomIndices(s, k, n) ==
    IF k = 0 THEN <<>> ELSE <<RandInt(s, n)>> \o RandomIndices(RngNext(s), k - 1, n)
ShuffleWithReplacement(seed, r, n) == RandomIndices(NumpySeedState(seed), n, n)
Shuffle(seed, r, n) == NumpyPermutation(NumpySeedState(seed), n)

\* SortDataset(nested, sort_order=[shuffle]) presents the indices through the
\* permutation; without shuffling the natural order is kept
OrderedIndicesNatural(no_shuffle, shuffle, n) == Arange(n)
OrderedIndices(no_shuffle, shuffle, n) ==
    IF no_shuffle THEN Arange(n) ELSE shuffle

\* no max_positions resolved yet
Unresolved == <<>>

EmptyDataset ==
    [n |-> 0, src_tokens |-> <<>>, sizes |-> <<>>, shuffle |-> <<>>,
     order |-> <<>>, lengths |-> <<>>, kept |-> <<>>, kw |-> <<>>]

NoFirst ==
    [pc |-> "none", shuffle |-> <<>>, order |-> <<>>, batches |-> <<>>,
     handed |-> <<>>, error |-> NoError]

NoItem ==
    [index |-> None, position |-> None, src_tokens |-> <<>>,
     src_lengths |-> <<>>, start |-> None, length |-> None,
     label_list |-> <<>>]

\* no mini-batch collated yet
NoSample ==
    [id |-> <<>>, nsentences |-> None, ntokens |-> None, src_lengths |-> <<>>]

LoadSentenceRanking ==
    /\ pc = "start"
    /\ args.task = "sentence_ranking"
    /\ LET src == SrcTokens(args, corpus)
           n == DatasetLen(src[1])
           shuffle == Shuffle(args.seed, rng, n)
       IN  IF \E k \in 1..Len(src) : ~LengthsAgree(src[k])
           THEN /\ pc' = "failed"
                /\ error' = LengthMismatchError
                /\ dataset' = dataset
           ELSE IF \E k \in 1..Len(src) : ~WellTyped(src[k])
           THEN /\ pc' = "failed"
                /\ error' = TypeError
                /\ dataset' = dataset
           ELSE /\ pc' = "loaded"
                /\ error' = error
                /\ dataset' = [n |-> n,
                               src_tokens |-> src,
                               sizes |-> NestedSizes(src, n),
                               shuffle |-> shuffle,
                               order |-> OrderedIndices(args.no_shuffle, shuffle, n),
                               lengths |-> <<>>,
                               kept |-> <<>>,
                               kw |-> <<>>]
    /\ UNCHANGED <<sample, args, corpus, modelMax, rng, effMax, visible, excluded,
                   batches, itr, handed, item, prevItem, run, first,
                   dictionaries, fetched>>

\* the example at visible position p: the index the dataset presents at p,
\* then nested_dataset[i], the options' realised src_tokens and their lengths
AccessRanking ==
    /\ pc = "loaded"
    /\ args.task = "sentence_ranking"
    /\ \E p \in 1..dataset.n :
        LET i == dataset.order[p] IN
        /\ item' = [index |-> i, position |-> p,
                    src_tokens |-> [k \in 1..Len(dataset.src_tokens) |->
                                        GetItem(dataset.src_tokens[k], i)],
                    src_lengths |-> [k \in 1..Len(dataset.src_tokens) |->
                                        SizeOf(dataset.src_tokens[k], i)],
                    start |-> None, length |-> None, label_list |-> <<>>]
    /\ UNCHANGED <<sample, args, corpus, modelMax, rng, pc, dataset, effMax, error,
                   visible, excluded, batches, itr, handed, prevItem, run,
                   first,
                   dictionaries, fetched>>

\* 'ntokens': NumelDataset(src_tokens[0], reduce=True)
NtokensSourceLast(src) == src[Len(src)]
NtokensSource(src) == src[1]

\* 'src_lengths' of net_input<k>: NumelDataset(src_tokens[k-1], reduce=False)
SrcLengthsSource(src, k) == src[k]

\* NumelDataset(ds, reduce).collater(samples): the number of elements of
\* each realised example, summed over the mini-batch when reduce is set
NumelCollater(ds, batch, reduce) ==
    LET numel == [p \in 1..Len(batch) |-> Len(GetItem(ds, batch[p]))]
    IN  IF reduce THEN Sum(numel) ELSE numel

\* the collater of the nested dataset on the examples of a mini-batch: a run
\* of the indices in the order the dataset presents them
CollateRanking ==
    /\ pc = "loaded"
    /\ args.task = "sentence_ranking"
    /\ \E lo \in 1..dataset.n : \E hi \in lo..dataset.n :
        LET batch == SubSeq(dataset.order, lo, hi)
            src == dataset.src_tokens
        IN  sample' =
              [id |-> batch,
               nsentences |-> Len(batch),
               ntokens |-> NumelCollater(NtokensSource(src), batch, TRUE),
               src_lengths |-> [k \in 1..Len(src) |->
                   NumelCollater(SrcLengthsSource(src, k), batch, FALSE)]]
    /\ UNCHANGED <<args, corpus, modelMax, rng, pc, dataset, effMax, error,
                   visible, excluded, batches, itr, handed, item, prevItem,
                   run, first, dictionaries, fetched>>

----------------------------------------------------------------------------
(* Dictionary and LabelEncoder *)

\* the reserved ids of a Dictionary: bos 0, pad 1, eos 2, unk 3; the symbols
\* of the dictionary file follow
NSpecial == 4
PadIndex == 1
EosIndex == 2
UnkIndex == 3

\* a label stream without a dictionary (Python's None)
NoDictionary == [present |-> FALSE, symbols |-> <<>>]

\* Dictionary.load(path): the symbols of the file, in file order
DictionaryLoad(file) == [present |-> TRUE, symbols |-> file.symbols]

\* dictionaries_factory: a dictionary for every label whose dict.<label>.txt
\* exists, None for the others
DictionariesFactory(c) ==
    [k \in 1..Len(c.dicts) |->
        IF c.dicts[k].exists THEN DictionaryLoad(c.dicts[k]) ELSE NoDictionary]

HasSymbol(symbols, sym) == \E p \in 1..Len(symbols) : symbols[p] = sym

\* Dictionary.index(sym) of a symbol the dictionary holds
IndexOf(symbols, sym) ==
    NSpecial + (CHOOSE p \in 1..Len(symbols) : symbols[p] = sym) - 1

\* Dictionary.encode_line(line, append_eos, add_if_not_exist), token by
\* token: the ids so far, the dictionary's symbols, and whether a token was
\* absent from a dictionary that may not grow
RECURSIVE EncodeFrom(_, _, _, _)
EncodeFrom(line, ids, symbols, add_if_not_exist) ==
    IF line = <<>>
    THEN [ids |-> ids, symbols |-> symbols, unknown |-> FALSE]
    ELSE IF HasSymbol(symbols, Head(line))
    THEN EncodeFrom(Tail(line), Append(ids, IndexOf(symbols, Head(line))),
                    symbols, add_if_not_exist)
    ELSE IF add_if_not_exist
    THEN EncodeFrom(Tail(line), Append(ids, NSpecial + Len(symbols)),
                    Append(symbols, Head(line)), add_if_not_exist)
    ELSE [ids |-> ids, symbols |-> symbols, unknown |-> TRUE]

EncodeLine(dictionary, line, append_eos, add_if_not_exist) ==
    LET r == EncodeFrom(line, <<>>, dictionary.symbols, add_if_not_exist)
    IN  IF append_eos /\ ~r.unknown
        THEN [r EXCEPT !.ids = Append(r.ids, EosIndex)] ELSE r

\* LabelEncoder.__call__(label)
LabelEncoderAppendsEos(dictionary, label) ==
    EncodeLine(dictionary, label, TRUE, FALSE)
LabelEncoderGrows(dictionary, label) ==
    EncodeLine(dictionary, label, FALSE, TRUE)
LabelEncoder(dictionary, label) ==
    EncodeLine(dictionary, label, FALSE, FALSE)

\* the symbol '<mask>'
MaskSymbol == 9

\* Dictionary.add_symbol(sym): a symbol the dictionary holds keeps its id, a
\* new one is appended and gets the next id
AddSymbol(dictionary, sym) ==
    IF HasSymbol(dictionary.symbols, sym) THEN dictionary
    ELSE [dictionary EXCEPT !.symbols = Append(@, sym)]

\* SentenceRankingTask.load_dictionary(args, filename)
LoadDictionaryFileOnly(file) == DictionaryLoad(file)
LoadDictionary(file) == AddSymbol(DictionaryLoad(file), MaskSymbol)

\* setup_task: the sentence-ranking task loads its one dictionary from
\* input0/dict.txt, the HuBERT task one dictionary per label stream
SetupTask(a, c) ==
    IF a.task = "sentence_ranking" THEN <<LoadDictionary(c.dicts[1])>>
    ELSE DictionariesFactory(c)

----------------------------------------------------------------------------
(* HubertPretrainingTask and HubertDataset *)

\* positions of the manifest entries HubertDataset keeps: those whose raw
\* length is at least min_keep_sample_size, in manifest order
RECURSIVE KeptFrom(_, _, _)
KeptFrom(lengths, p, min_keep) ==
    IF p > Len(lengths) THEN <<>>
    ELSE IF min_keep # None /\ lengths[p] < min_keep
         THEN KeptFrom(lengths, p + 1, min_keep)
         ELSE <<p>> \o KeptFrom(lengths, p + 1, min_keep)

HubertKept(lengths, min_keep) == KeptFrom(lengths, 1, min_keep)

\* HubertDataset.size(index): the whole input when padding, else the crop
HubertSize(L, pad_audio, max_sample_size) ==
    IF pad_audio \/ max_sample_size = None THEN L
    ELSE Min(L, max_sample_size)

\* the keyword arguments load_dataset hands to HubertDataset
HubertDatasetArgsCropAlways(a) ==
    [sample_rate |-> a.sample_rate,
     label_rates |-> a.label_rate,
     min_keep_sample_size |-> a.min_sample_size,
     max_sample_size |-> a.max_sample_size,
     pad_audio |-> a.pad_audio,
     random_crop |-> TRUE,
     single_target |-> a.single_target]
HubertDatasetArgsPadSwapped(a) ==
    [sample_rate |-> a.sample_rate,
     label_rates |-> a.label_rate,
     min_keep_sample_size |-> a.min_sample_size,
     max_sample_size |-> a.max_sample_size,
     pad_audio |-> a.random_crop,
     random_crop |-> a.pad_audio,
     single_target |-> a.single_target]
HubertDatasetArgsKeepAll(a) ==
    [sample_rate |-> a.sample_rate,
     label_rates |-> a.label_rate,
     min_keep_sample_size |-> None,
     max_sample_size |-> a.max_sample_size,
     pad_audio |-> a.pad_audio,
     random_crop |-> a.random_crop,
     single_target |-> a.single_target]
HubertDatasetArgs(a) ==
    [sample_rate |-> a.sample_rate,
     label_rates |-> a.label_rate,
     min_keep_sample_size |-> a.min_sample_size,
     max_sample_size |-> a.max_sample_size,
     pad_audio |-> a.pad_audio,
     random_crop |-> a.random_crop,
     single_target |-> a.single_target]

\* load_dataset: the pad and eos ids of every label stream's dictionary are
\* read first (a stream without a dictionary has none to call), then
\* HubertDataset is built, which checks each label file against the manifest
LoadHubert ==
    /\ pc = "start"
    /\ args.task = "hubert_pretraining"
    /\ LET kw == HubertDatasetArgs(args)
           kept == HubertKept(corpus.sizes, kw.min_keep_sample_size)
           n == Len(kept)
           shuffle == Shuffle(args.seed, rng, n)
       IN  IF \E k \in 1..Len(dictionaries) : ~dictionaries[k].present
           THEN /\ pc' = "failed"
                /\ error' = AttributeError
                /\ dataset' = dataset
           ELSE IF \E k \in 1..Len(corpus.labels) :
                      Len(corpus.labels[k]) # Len(corpus.sizes)
           THEN /\ pc' = "failed"
                /\ error' = MisalignedCorpusError
                /\ dataset' = dataset
           ELSE /\ pc' = "loaded"
                /\ error' = error
                /\ dataset' =
                      [n |-> n,
                       src_tokens |-> <<>>,
                       sizes |-> [p \in 1..n |->
                                    HubertSize(corpus.sizes[kept[p]],
                                               kw.pad_audio, kw.max_sample_size)],
                       shuffle |-> shuffle,
                       order |-> OrderedIndices(args.no_shuffle, shuffle, n),
                       lengths |-> [p \in 1..n |-> corpus.sizes[kept[p]]],
                       kept |-> kept,
                       kw |-> kw]
    /\ UNCHANGED <<sample, args, corpus, modelMax, rng, effMax, visible,
                   excluded, batches, itr, handed, item, prevItem, run, first,
                   dictionaries, fetched>>

\* the crop length for an input of L samples
CropLength(L, kw) ==
    IF kw.pad_audio \/ kw.max_sample_size = None THEN L
    ELSE Min(L, kw.max_sample_size)

\* a crop start is drawn at random for an input of L samples
DrawsCrop(L, kw) ==
    ~kw.pad_audio /\ kw.random_crop /\ L > CropLength(L, kw)

\* the label frames [lo, hi) that go with the samples [start, start + len):
\* floor(start / ratio) and floor((start + len) / ratio), with
\* ratio = sample_rate / label_rate
LabelRangeWholeRatio(start, len, sample_rate, label_rate) ==
    <<start \div (sample_rate \div label_rate),
      (start + len) \div (sample_rate \div label_rate)>>
LabelRange(start, len, sample_rate, label_rate) ==
    <<(start * label_rate) \div sample_rate,
      ((start + len) * label_rate) \div sample_rate>>

\* the labels of one stream that go with the samples [start, start + len):
\* the whole entry for a sequence-level stream (rate -1), else its frames
LabelSlice(entry, start, len, kw) ==
    IF kw.label_rates = -1 THEN entry
    ELSE LET r == LabelRange(start, len, kw.sample_rate, kw.label_rates)
         IN  SubSeq(entry, r[1] + 1, r[2])

\* the frame range of the samples [start, start + len) is not all inside the
\* label entry
FramesOutside(entry, start, len, kw) ==
    /\ kw.label_rates # -1
    /\ LabelRange(start, len, kw.sample_rate, kw.label_rates)[2] > Len(entry)

\* dataset[i] of HubertDataset: the crop window and, for every label stream,
\* the labels that go with it, encoded by the stream's LabelEncoder
HubertGetItem ==
    /\ pc = "loaded"
    /\ args.task = "hubert_pretraining"
    /\ \E i \in 0..(dataset.n - 1) :
        LET kw == dataset.kw
            L == dataset.lengths[i + 1]
            C == CropLength(L, kw)
            start == IF DrawsCrop(L, kw) THEN RandInt(rng, L - C + 1) ELSE 0
            enc == [k \in 1..Len(corpus.labels) |->
                       LabelEncoder(dictionaries[k],
                           LabelSlice(corpus.labels[k][dataset.kept[i + 1]],
                                      start, C, kw))]
        IN  /\ IF \E k \in 1..Len(corpus.labels) :
                       FramesOutside(corpus.labels[k][dataset.kept[i + 1]],
                                     start, C, kw)
               THEN \* the frame range leaves the label array
                    /\ pc' = "failed"
                    /\ error' = MisalignedCorpusError
                    /\ UNCHANGED <<item, prevItem, dictionaries>>
               ELSE /\ dictionaries' =
                          [k \in 1..Len(enc) |->
                              [dictionaries[k] EXCEPT !.symbols = enc[k].symbols]]
                    /\ IF \E k \in 1..Len(enc) : enc[k].unknown
                       THEN /\ pc' = "failed"
                            /\ error' = UnknownSymbolError
                            /\ UNCHANGED <<item, prevItem>>
                       ELSE /\ pc' = pc
                            /\ error' = error
                            /\ item' = [index |-> i,
                                        position |-> None,
                                        src_tokens |-> <<>>,
                                        src_lengths |-> <<>>,
                                        start |-> start,
                                        length |-> C,
                                        label_list |->
                                            [k \in 1..Len(enc) |-> enc[k].ids]]
                            /\ prevItem' = IF item.index = i THEN item
                                           ELSE NoItem
            /\ rng' = IF DrawsCrop(L, kw) THEN RngNext(rng) ELSE rng
    /\ UNCHANGED <<sample, args, corpus, modelMax, dataset, effMax,
                   visible, excluded, batches, itr, handed, run, first,
                   fetched>>

\* HubertPretrainingTask.max_positions
HubertMaxPositions == <<SysMaxsize, SysMaxsize>>

\* HubertPretrainingTask.filter_indices_by_size: the indices, unchanged
HubertFilterChecked(indices, sizes, max_positions) ==
    SelectSeq(indices, LAMBDA i :
        \A f \in 1..Len(max_positions) : sizes[i + 1] <= max_positions[f])
HubertFilterIndicesBySize(indices, sizes, max_positions) == indices

----------------------------------------------------------------------------
(* A task with the default size filter: translation, as in the tests *)

LoadTranslation ==
    /\ pc = "start"
    /\ args.task = "translation"
    /\ LET n == Len(corpus.sizes)
           shuffle == Shuffle(args.seed, rng, n)
       IN  dataset' = [n |-> n,
                       src_tokens |-> <<>>,
                       sizes |-> corpus.sizes,
                       shuffle |-> shuffle,
                       order |-> OrderedIndices(args.no_shuffle, shuffle, n),
                       lengths |-> <<>>,
                       kept |-> <<>>,
                       kw |-> <<>>]
    /\ pc' = "loaded"
    /\ UNCHANGED <<sample, args, corpus, modelMax, rng, effMax, error, visible,
                   excluded, batches, itr, handed, item, prevItem, run, first,
                   dictionaries, fetched>>

----------------------------------------------------------------------------
(* The batch iterator builder (task.get_batch_iterator) *)

\* task.max_positions(), held as the tuple of its fields (source, target);
\* the bound method the sentence-ranking task returns has no fields and is
\* held as the tuple of itself
TaskMaxPositions(a) ==
    CASE a.task = "hubert_pretraining" -> HubertMaxPositions
      [] a.task = "sentence_ranking" -> <<RankingMaxPositions>>
      [] OTHER -> <<a.max_source_positions, a.max_target_positions>>

\* [m.max_positions() for m in models]
ModelsMaxPositionsFirstOnly(models) == <<models[1]>>
ModelsMaxPositions(models) == [m \in 1..Len(models) |-> models[m]]

\* utils.resolve_max_positions(first, *rest): field by field, the minimum
\* over the bounds given
RECURSIVE ResolveMaxPositions(_, _)
ResolveMaxPositions(max_positions, rest) ==
    IF rest = <<>> THEN max_positions
    ELSE ResolveMaxPositions(
            [f \in 1..Len(max_positions) |->
                Min(max_positions[f], Head(rest)[f])],
            Tail(rest))

\* a size is within max_positions when it is within every field of it
WithinPositions(size, max_positions) ==
    \A f \in 1..Len(max_positions) : size <= max_positions[f]

\* the indices whose size exceeds the limit, in order
Oversized(indices, sizes, max_positions) ==
    SelectSeq(indices, LAMBDA i : ~WithinPositions(sizes[i + 1], max_positions))

\* the default filter_indices_by_size: the indices within the limit, in order
DefaultFilterIndicesBySize(indices, sizes, max_positions) ==
    SelectSeq(indices, LAMBDA i : WithinPositions(sizes[i + 1], max_positions))

SizesOf(batch, sizes) == [p \in 1..Len(batch) |-> sizes[batch[p] + 1]]

\* adding index i to the batch would break the token or the sentence budget
BreaksBudget(batch, i, sizes, max_tokens, max_sentences) ==
    \/ max_tokens # None /\ Sum(SizesOf(batch, sizes)) + sizes[i + 1] > max_tokens
    \/ max_sentences # None /\ Len(batch) + 1 > max_sentences

\* Greedy grouping in order (design document, section 4.5). A batch is closed
\* when the next index would break a budget; a batch whose membership is not
\* a multiple of bsz_mult is first filled up from the indices that follow
\* ("padded in membership up to the nearest multiple by merging with the next
\* batch"); the last batch may be short. An index always enters an empty
\* batch: the error taxonomy has no error for a size over max_tokens.
RECURSIVE BatchFrom(_, _, _, _, _, _)
BatchFrom(indices, batch, sizes, max_tokens, max_sentences, bsz_mult) ==
    IF indices = <<>>
    THEN IF batch = <<>> THEN <<>> ELSE <<batch>>
    ELSE IF /\ batch # <<>>
            /\ BreaksBudget(batch, Head(indices), sizes, max_tokens, max_sentences)
            /\ Len(batch) % bsz_mult = 0
         THEN <<batch>> \o BatchFrom(Tail(indices), <<Head(indices)>>, sizes,
                                     max_tokens, max_sentences, bsz_mult)
         ELSE BatchFrom(Tail(indices), Append(batch, Head(indices)), sizes,
                        max_tokens, max_sentences, bsz_mult)

BatchBySize(indices, sizes, max_tokens, max_sentences, bsz_mult) ==
    BatchFrom(indices, <<>>, sizes, max_tokens, max_sentences, bsz_mult)

\* EpochBatchIterator.next_epoch_itr(shuffle): the frozen batches, shuffled
\* as a whole with the seed when asked to
NextEpochItr(bs, shuffle, seed) ==
    IF shuffle
    THEN LET perm == NumpyPermutation(NumpySeedState(seed + 1), Len(bs))
         IN  [p \in 1..Len(bs) |-> bs[perm[p] + 1]]
    ELSE bs

----------------------------------------------------------------------------
(* fairseq_cli/validate.py: main *)

\* ignore_invalid_inputs=args.skip_invalid_size_inputs_valid_test
IgnoreAlways(a) == TRUE
IgnoreNever(a) == FALSE
IgnoreInvalidInputs(a) == a.skip_invalid_size_inputs_valid_test

\* max_tokens=args.max_tokens, max_sentences=args.max_sentences
MaxTokensDropped(a) == None
MaxTokensArg(a) == a.max_tokens
MaxSentencesArg(a) == a.max_sentences

\* required_batch_size_multiple=args.required_batch_size_multiple
MultipleDropped(a) == 1
RequiredBatchSizeMultiple(a) == a.required_batch_size_multiple

\* .next_epoch_itr(shuffle=False)
EpochShuffleOn == TRUE
EpochShuffle == FALSE

\* task.load_dataset(subset, combine=False, epoch=0)
LoadDataset == LoadSentenceRanking \/ LoadHubert \/ LoadTranslation

\* itr = task.get_batch_iterator(...).next_epoch_itr(shuffle=False)
GetBatchIterator ==
    /\ pc = "loaded"
    /\ LET taskMax == TaskMaxPositions(args)
           maxPos == ResolveMaxPositions(taskMax, ModelsMaxPositions(modelMax))
           indices == dataset.order
           over == Oversized(indices, dataset.sizes, maxPos)
           kept == IF args.task = "hubert_pretraining"
                   THEN HubertFilterIndicesBySize(indices, dataset.sizes, maxPos)
                   ELSE DefaultFilterIndicesBySize(indices, dataset.sizes, maxPos)
           bs == BatchBySize(kept, dataset.sizes, MaxTokensArg(args),
                             MaxSentencesArg(args),
                             RequiredBatchSizeMultiple(args))
       IN  IF \E f \in 1..Len(taskMax) : ~IsNumber(taskMax[f])
           THEN \* a bound method where a tuple of numbers is expected
                /\ pc' = "failed"
                /\ error' = TypeError
                /\ UNCHANGED <<effMax, visible, excluded, batches, itr,
                               fetched>>
           ELSE IF /\ args.task # "hubert_pretraining"
                   /\ over # <<>>
                   /\ ~IgnoreInvalidInputs(args)
           THEN /\ pc' = "failed"
                /\ error' = OversizedExampleError(over[1], dataset.sizes[over[1] + 1])
                /\ effMax' = maxPos
                /\ UNCHANGED <<visible, excluded, batches, itr, fetched>>
           ELSE /\ pc' = "iterating"
                /\ error' = error
                /\ effMax' = maxPos
                /\ visible' = kept
                /\ excluded' = Len(indices) - Len(kept)
                /\ batches' = bs
                /\ itr' = NextEpochItr(bs, EpochShuffle, args.seed)
                /\ fetched' = [j \in 1..Len(bs) |-> 0]
    /\ UNCHANGED <<sample, args, corpus, modelMax, rng, dataset, handed, item,
                   prevItem, run, first, dictionaries>>

\* num_workers=args.num_workers
NumWorkers(a) == a.num_workers

\* the batches of the epoch that reader worker w realises: every
\* num_workers-th batch, starting with batch w
WorkerBatches(w, nw, nb) == {j \in 1..nb : (j - 1) % nw = w - 1}

\* a reader worker realises the next element of the earliest of its batches
\* that is not complete; it reads the batch and the dataset, and writes
\* nothing but its own progress
WorkerFetch ==
    /\ pc = "iterating"
    /\ \E w \in 1..NumWorkers(args) :
        LET mine == {j \in WorkerBatches(w, NumWorkers(args), Len(fetched)) :
                        j > Len(handed) /\ fetched[j] < Len(itr[j - Len(handed)])}
        IN  /\ mine # {}
            /\ LET j == CHOOSE x \in mine : \A y \in mine : x <= y
               IN  fetched' = [fetched EXCEPT ![j] = @ + 1]
    /\ UNCHANGED <<sample, args, corpus, modelMax, rng, pc, dataset, effMax, error,
                   visible, excluded, batches, itr, handed, item, prevItem,
                   run, first, dictionaries>>

\* the position, among the batches still to hand out, of the batch handed
\* out next: the batches come out in the sampler's order, whichever worker
\* finishes first
HandedNextFirstDone(it, f, h) ==
    IF \E p \in 1..Len(it) : f[Len(h) + p] = Len(it[p])
    THEN CHOOSE p \in 1..Len(it) :
            /\ f[Len(h) + p] = Len(it[p])
            /\ \A q \in 1..(p - 1) : f[Len(h) + q] < Len(it[q])
    ELSE 1
HandedNext(it, f, h) == 1

\* for i, sample in enumerate(progress): task.valid_step(sample, ...)
\* (without workers the main process realises the batch itself)
ValidStep ==
    /\ pc = "iterating"
    /\ itr # <<>>
    /\ LET p == HandedNext(itr, fetched, handed)
       IN  /\ NumWorkers(args) > 0 => fetched[Len(handed) + p] = Len(itr[p])
           /\ handed' = Append(handed, itr[p])
           /\ itr' = SubSeq(itr, 1, p - 1) \o SubSeq(itr, p + 1, Len(itr))
    /\ UNCHANGED <<sample, args, corpus, modelMax, rng, pc, dataset, effMax, error,
                   visible, excluded, batches, item, prevItem, run, first,
                   dictionaries, fetched>>

\* the loop over the subset ends: progress.print(log_output, ...)
FinishEarly ==
    /\ pc = "iterating"
    /\ pc' = "done"
    /\ UNCHANGED <<sample, args, corpus, modelMax, rng, dataset, effMax, error,
                   visible, excluded, batches, itr, handed, item, prevItem,
                   run, first, dictionaries, fetched>>
Finish ==
    /\ pc = "iterating"
    /\ itr = <<>>
    /\ pc' = "done"
    /\ UNCHANGED <<sample, args, corpus, modelMax, rng, dataset, effMax, error,
                   visible, excluded, batches, itr, handed, item, prevItem,
                   run, first,
                   dictionaries, fetched>>

\* the same command is run again, in a process whose numpy generator is in
\* another state; what the first run produced is kept for comparison
Rerun ==
    /\ run = 1
    /\ pc \in {"done", "failed"}
    /\ first' = [pc |-> pc, shuffle |-> dataset.shuffle, order |-> dataset.order,
                 batches |-> batches, handed |-> handed, error |-> error]
    /\ run' = 2
    /\ rng' \in {3, 6}
    /\ pc' = "start"
    /\ dataset' = EmptyDataset
    /\ effMax' = Unresolved
    /\ error' = NoError
    /\ visible' = <<>>
    /\ excluded' = 0
    /\ batches' = <<>>
    /\ itr' = <<>>
    /\ handed' = <<>>
    /\ fetched' = <<>>
    /\ UNCHANGED <<sample, args, corpus, modelMax, item, prevItem, dictionaries>>

----------------------------------------------------------------------------
(* The sentence-ranking corpora and configurations *)

RankIndices == 2
LengthSeqs(n) == [1..n -> 1..MaxLen]

DefaultArgs ==
    [task |-> "sentence_ranking", seed |-> 1, no_shuffle |-> FALSE,
     num_classes |-> 1, init_token |-> None, separator_token |-> None,
     truncate_sequence |-> FALSE, max_option_length |-> None,
     max_tokens |-> None, max_sentences |-> None,
     required_batch_size_multiple |-> 1,
     skip_invalid_size_inputs_valid_test |-> FALSE,
     max_source_positions |-> 1024, max_target_positions |-> 1024,
     num_workers |-> 0,
     sample_rate |-> 4, label_rate |-> -1, pad_audio |-> FALSE,
     random_crop |-> TRUE, min_sample_size |-> None,
     max_sample_size |-> None, single_target |-> FALSE]

RankingArgs ==
    {[DefaultArgs EXCEPT !.num_classes = nc, !.init_token = it,
                         !.separator_token = st, !.truncate_sequence = ts,
                         !.max_option_length = mol, !.seed = 0] :
        nc \in {1, 2}, it \in {None, 0}, st \in {None, 2}, ts \in BOOLEAN,
        mol \in {None, 2}}

\* input0 has RankIndices examples; the option files have as many, or one
\* example less (a file that lost its last line). With two options the
\* examples of input0 all have one length.
\* input0/dict.txt: two word types, with or without a line for '<mask>'
RankingDictFiles ==
    {[exists |-> TRUE, symbols |-> <<5, 6>>],
     [exists |-> TRUE, symbols |-> <<5, MaskSymbol, 6>>]}

RankingCorpora(nc) ==
    UNION {{[input0 |-> l0, options |-> opts, sizes |-> <<>>, labels |-> <<>>,
              dicts |-> <<df>>] :
                l0 \in IF nc = 1 THEN LengthSeqs(RankIndices)
                       ELSE {[p \in 1..RankIndices |-> l] : l \in 1..MaxLen},
                opts \in [1..nc -> LengthSeqs(m)],
                df \in RankingDictFiles} :
            m \in {RankIndices - 1, RankIndices}}

InitRank ==
    /\ args \in RankingArgs
    /\ corpus \in RankingCorpora(args.num_classes)
    /\ modelMax = <<(<<MaxSize, MaxSize>>)>>
    /\ rng = 0
    /\ pc = "start"
    /\ dataset = EmptyDataset
    /\ effMax = Unresolved
    /\ error = NoError
    /\ visible = <<>>
    /\ excluded = 0
    /\ batches = <<>>
    /\ itr = <<>>
    /\ handed = <<>>
    /\ item = NoItem
    /\ prevItem = NoItem
    /\ run = 1
    /\ first = NoFirst
    /\ dictionaries = SetupTask(args, corpus)
    /\ fetched = <<>>
    /\ sample = NoSample

NextRank == LoadSentenceRanking \/ AccessRanking

SpecRank == InitRank /\ [][NextRank]_vars

\* the same splits, read a mini-batch at a time
NextCollate == LoadSentenceRanking \/ CollateRanking

SpecCollate == InitRank /\ [][NextCollate]_vars

\* C1: after load_dataset, for every option k and every index i the size the
\* composed src_tokens dataset reports for i (from the size index, nothing
\* realised) equals the length of the realised example src_tokens[k][i]; and
\* the lengths an access reports are those of the examples it realised.
C1_SizeMatchesContent ==
    (pc = "loaded" /\ args.task = "sentence_ranking") =>
        /\ \A k \in 1..Len(dataset.src_tokens) : \A i \in 0..(dataset.n - 1) :
              SizeOf(dataset.src_tokens[k], i)
                  = Len(GetItem(dataset.src_tokens[k], i))
        /\ \A k \in 1..Len(item.src_tokens) :
              item.src_lengths[k] = Len(item.src_tokens[k])

\* a loaded split whose chain has every step, with an option the option
\* limit really cuts, and an example of it realised
C1_Witness ==
    /\ pc = "loaded" /\ args.task = "sentence_ranking"
    /\ args.init_token # None /\ args.separator_token # None
    /\ args.max_option_length # None
    /\ item.index # None
    /\ corpus.options[1][item.index + 1] + 1 > args.max_option_length
    /\ Len(item.src_tokens[1])
         = args.max_option_length + corpus.input0[item.index + 1] + 1

\* the realised option k and input0 at index i, before they are joined
OptionItem(k, i) == GetItem(InputOption(args, corpus, k), i)
InputZeroItem(i) == GetItem(InputZero(args, corpus), i)
\* option k as it is before the option length limit is applied
UncutOption(k) ==
    InputOption([args EXCEPT !.max_option_length = None], corpus, k)
Accessed == pc = "loaded" /\ item.index # None

\* C12: Concatenate(A, B) with A the option and B input0, as load_dataset
\* joins them: the example realised for index i holds every element of A[i]
\* in order and then every element of B[i] in order, nothing else, and its
\* size is size_A(i) + size_B(i).
C12_ConcatIsAThenB ==
    (Accessed /\ args.task = "sentence_ranking") =>
        \A k \in 1..Len(item.src_tokens) :
            LET x == item.src_tokens[k]
                a == OptionItem(k, item.index)
                b == InputZeroItem(item.index)
            IN  /\ Len(x) = Len(a) + Len(b)
                /\ \A p \in 1..Len(a) : x[p] = a[p]
                /\ \A p \in 1..Len(b) : x[Len(a) + p] = b[p]
                /\ item.src_lengths[k]
                     = SizeOf(InputOption(args, corpus, k), item.index)
                       + SizeOf(InputZero(args, corpus), item.index)

\* an example realised whose option part and input0 part differ in length and
\* both carry their extra token
C12_Witness ==
    /\ Accessed /\ args.task = "sentence_ranking"
    /\ args.init_token # None /\ args.separator_token # None
    /\ Len(OptionItem(1, item.index)) = 2
    /\ Len(InputZeroItem(item.index)) = 3
    /\ Len(item.src_tokens[1]) = 5

\* some option file does not have as many examples as input0
CountsDiffer ==
    \E k \in 1..args.num_classes : Len(corpus.options[k]) # Len(corpus.input0)

\* C13: when an option dataset and input0 differ in their number of examples,
\* load_dataset fails with LengthMismatchError: no dataset is registered and
\* no example is ever accessed.
C13_LengthMismatchAtLoad ==
    (args.task = "sentence_ranking" /\ CountsDiffer) =>
        /\ pc \in {"start", "failed"}
        /\ pc = "failed" => error = LengthMismatchError
        /\ dataset = EmptyDataset
        /\ item = NoItem

\* a load that failed on an option file one example short
C13_Witness ==
    /\ args.task = "sentence_ranking" /\ CountsDiffer
    /\ pc = "failed" /\ error.kind = "LengthMismatchError"
    /\ Len(corpus.options[1]) = Len(corpus.input0) - 1

\* C14: Truncate(D, max_len) with D the option (init token included) and
\* max_len the option length limit: the option part of the realised example
\* is the first min(len(D[i]), max_len) elements of D[i], the size reported is
\* min(size_D(i), max_len), and an option already within the limit comes out
\* whole, no error raised.
C14_TruncateKeepsPrefix ==
    (Accessed /\ args.task = "sentence_ranking"
        /\ args.max_option_length # None) =>
        \A k \in 1..Len(item.src_tokens) :
            LET i == item.index
                d == GetItem(UncutOption(k), i)
                n == Len(item.src_tokens[k]) - Len(InputZeroItem(i))
                t == SubSeq(item.src_tokens[k], 1, n)
            IN  /\ n = Min(Len(d), args.max_option_length)
                /\ \A p \in 1..n : t[p] = d[p]
                /\ SizeOf(InputOption(args, corpus, k), i)
                     = Min(SizeOf(UncutOption(k), i), args.max_option_length)
                /\ Len(d) <= args.max_option_length => t = d
                /\ error = NoError

\* one access that cut an option of three tokens down to the limit, and one
\* that left an option of the limit's length whole
C14_Witness ==
    /\ Accessed /\ args.task = "sentence_ranking"
    /\ args.max_option_length # None /\ args.num_classes = 2
    /\ Len(GetItem(UncutOption(1), item.index)) > args.max_option_length
    /\ Len(GetItem(UncutOption(2), item.index)) <= args.max_option_length
    /\ Len(OptionItem(1, item.index)) = args.max_option_length
    /\ OptionItem(2, item.index) = GetItem(UncutOption(2), item.index)

\* C15: truncating twice with the same length gives what truncating once
\* gives: for every option dataset D, every length k and every index i that is
\* accessed, truncate(truncate(D, k), k) has the example and the size of
\* truncate(D, k).
C15_TruncateIdempotent ==
    (Accessed /\ args.task = "sentence_ranking") =>
        \A c \in 1..args.num_classes : \A k \in 0..(MaxLen + 2) :
            LET once == TruncateDataset(UncutOption(c), k)
                twice == TruncateDataset(once, k)
            IN  /\ GetItem(twice, item.index) = GetItem(once, item.index)
                /\ SizeOf(twice, item.index) = SizeOf(once, item.index)

\* an access to an index whose option, three tokens long with its init
\* token, is cut to one token by a truncation to length one
C15_Witness ==
    /\ Accessed /\ args.task = "sentence_ranking"
    /\ Len(GetItem(UncutOption(1), item.index)) >= 3
    /\ Len(GetItem(TruncateDataset(UncutOption(1), 1), item.index)) = 1

\* C21 as stated: the sentence-ranking task's dictionary holds the symbols of
\* the dictionary file and no other: the ids the file assigns are the whole
\* vocabulary of the split, at setup and after any load and access.
C21_VocabularyIsTheFile ==
    args.task = "sentence_ranking" =>
        dictionaries[1].symbols = corpus.dicts[1].symbols

\* C21, amended: once task setup has returned the dictionary never changes:
\* it holds the symbols of the dictionary file in file order, followed by
\* '<mask>' when the file does not list it (setup adds that symbol after
\* loading the file); loading the split and accessing examples add nothing.
C21_DictionaryFixedAfterSetup ==
    args.task = "sentence_ranking" =>
        LET file == corpus.dicts[1].symbols
            held == dictionaries[1].symbols
            listed == \E p \in 1..Len(file) : file[p] = MaskSymbol
        IN  /\ Len(dictionaries) = 1
            /\ \A p \in 1..Len(file) : held[p] = file[p]
            /\ listed => Len(held) = Len(file)
            /\ ~listed => /\ Len(held) = Len(file) + 1
                          /\ held[Len(held)] = MaskSymbol

\* a split loaded and an example accessed, the dictionary file without a
\* line for '<mask>', the dictionary with '<mask>' as its last symbol
C21_Witness ==
    /\ Accessed /\ args.task = "sentence_ranking"
    /\ ~HasSymbol(corpus.dicts[1].symbols, MaskSymbol)
    /\ Len(dictionaries[1].symbols) = 3
    /\ dictionaries[1].symbols[3] = MaskSymbol

\* C25: with shuffling on, the example at visible position p is the example
\* of original index perm[p], perm the permutation drawn at load time: it has
\* that index's content and that index's sizes; the size index and the
\* composed datasets are those computed from the corpus at load time, by
\* original index, and no access changes the dataset.
C25_ShuffleLeavesStorage ==
    /\ []((Accessed /\ args.task = "sentence_ranking" /\ ~args.no_shuffle) =>
            LET i == dataset.shuffle[item.position]
            IN  /\ item.index = i
                /\ \A k \in 1..args.num_classes :
                      /\ item.src_tokens[k]
                           = OptionItem(k, i) \o InputZeroItem(i)
                      /\ item.src_lengths[k]
                           = Len(OptionItem(k, i)) + Len(InputZeroItem(i))
                      /\ dataset.sizes[i + 1] >= item.src_lengths[k]
                /\ \A j \in 0..(dataset.n - 1) :
                      \E k \in 1..args.num_classes :
                         dataset.sizes[j + 1]
                           = Len(OptionItem(k, j)) + Len(InputZeroItem(j))
                /\ IsPermutation(dataset.shuffle, dataset.n))
    /\ [][pc = "loaded" => dataset' = dataset]_vars

\* the example at visible position 1 of a shuffled split is the one of
\* original index 1, and it differs in length from the one of index 0
C25_Witness ==
    /\ Accessed /\ args.task = "sentence_ranking" /\ ~args.no_shuffle
    /\ item.position = 1 /\ item.index = 1
    /\ dataset.shuffle = <<1, 0>>
    /\ Len(item.src_tokens[1]) # Len(OptionItem(1, 0)) + Len(InputZeroItem(0))

\* C26: the size the nested dataset assigns to index i is the maximum over
\* the options of the size of the composed src_tokens at i: it is the size of
\* one option's composed example and at least the size, and the realised
\* length, of every option's.
C26_NestedSizeIsMax ==
    /\ (pc = "loaded" /\ args.task = "sentence_ranking") =>
          \A i \in 0..(dataset.n - 1) :
              /\ \A k \in 1..args.num_classes :
                    /\ dataset.sizes[i + 1] >= SizeOf(dataset.src_tokens[k], i)
                    /\ dataset.sizes[i + 1]
                         >= Len(GetItem(dataset.src_tokens[k], i))
              /\ \E k \in 1..args.num_classes :
                    dataset.sizes[i + 1] = SizeOf(dataset.src_tokens[k], i)
    /\ (Accessed /\ args.task = "sentence_ranking") =>
          \A k \in 1..Len(item.src_tokens) :
              dataset.sizes[item.index + 1] >= Len(item.src_tokens[k])

\* two options, the second one longer at the index accessed: the index has
\* the size of the second option's example
C26_Witness ==
    /\ Accessed /\ args.task = "sentence_ranking" /\ args.num_classes = 2
    /\ Len(item.src_tokens[2]) > Len(item.src_tokens[1])
    /\ dataset.sizes[item.index + 1] = Len(item.src_tokens[2])

\* C27: with --truncate-sequence set and files of equal length, load_dataset
\* registers the split, the task's max_positions is a number, and every
\* composed src_tokens example has a length and a size of at most that
\* number.
C27_TruncatedToMaxPositions ==
    (args.task = "sentence_ranking" /\ args.truncate_sequence
        /\ ~CountsDiffer /\ pc # "start") =>
        /\ pc = "loaded"
        /\ IsNumber(RankingMaxPositions)
        /\ \A k \in 1..Len(dataset.src_tokens) : \A i \in 0..(dataset.n - 1) :
              /\ Len(GetItem(dataset.src_tokens[k], i)) <= RankingMaxPositions
              /\ SizeOf(dataset.src_tokens[k], i) <= RankingMaxPositions

\* C28: the realised src_tokens of option k at index i is the option part
\* followed by the input0 part: the option part is option_k[i] with the init
\* token in front (when set), cut to its first max_option_length elements
\* (when set); the input0 part is input0[i] with the separator in front (when
\* set), whole. The option part, init token included, is never longer than
\* max_option_length, and the init token, when set, is at position 0.
C28_CompositionOrder ==
    (Accessed /\ args.task = "sentence_ranking") =>
        \A k \in 1..args.num_classes :
            LET i == item.index
                mol == args.max_option_length
                option == [p \in 1..corpus.options[k][i + 1] |-> Token(k, i, p)]
                input0 == [p \in 1..corpus.input0[i + 1] |-> Token(0, i, p)]
                pre == IF args.init_token # None
                       THEN <<args.init_token>> \o option ELSE option
                cut == IF mol # None /\ Len(pre) > mol
                       THEN SubSeq(pre, 1, mol) ELSE pre
                sep == IF args.separator_token # None
                       THEN <<args.separator_token>> \o input0 ELSE input0
                x == item.src_tokens[k]
            IN  /\ x = cut \o sep
                /\ mol # None => Len(x) - Len(sep) <= mol
                /\ SubSeq(x, Len(x) - Len(sep) + 1, Len(x)) = sep
                /\ Len(sep) >= corpus.input0[i + 1]
                /\ args.init_token # None => x[1] = args.init_token

\* every step set: an option of two tokens loses its last token to the
\* limit once the init token is in front, and an input0 part longer than
\* the limit follows whole, separator first
C28_Witness ==
    /\ Accessed /\ args.task = "sentence_ranking"
    /\ args.init_token # None /\ args.separator_token # None
    /\ args.max_option_length = 2
    /\ corpus.options[1][item.index + 1] = 2
    /\ corpus.input0[item.index + 1] = 2
    /\ item.src_tokens[1]
         = <<args.init_token, Token(1, item.index, 1), args.separator_token,
             Token(0, item.index, 1), Token(0, item.index, 2)>>

Collated == pc = "loaded" /\ sample.id # <<>>

\* the size of the composed src_tokens of option k at index i, from the
\* lengths in the corpus
ComposedSize(k, i) ==
    LET pre == corpus.options[k][i + 1]
                 + (IF args.init_token # None THEN 1 ELSE 0)
        cut == IF args.max_option_length # None
               THEN Min(pre, args.max_option_length) ELSE pre
    IN  cut + corpus.input0[i + 1]
            + (IF args.separator_token # None THEN 1 ELSE 0)

\* C29: in every collated mini-batch, the src_lengths of each option hold one
\* value per index of the batch, the size of that option's composed example
\* at that index, and ntokens is the sum over the batch's indices of the
\* sizes of the first option's composed examples, whatever the other
\* options' lengths.
C29_BatchMetadata ==
    (Collated /\ args.task = "sentence_ranking") =>
        /\ Len(sample.src_lengths) = args.num_classes
        /\ \A k \in 1..args.num_classes :
              /\ Len(sample.src_lengths[k]) = Len(sample.id)
              /\ \A p \in 1..Len(sample.id) :
                    /\ sample.src_lengths[k][p] = ComposedSize(k, sample.id[p])
                    /\ sample.src_lengths[k][p]
                         = SizeOf(dataset.src_tokens[k], sample.id[p])
        /\ sample.ntokens
             = Sum([p \in 1..Len(sample.id) |-> ComposedSize(1, sample.id[p])])
        /\ sample.nsentences = Len(sample.id)

\* a mini-batch of two indices with two options, the second option longer
\* than the first at both: ntokens counts the first option only
C29_Witness ==
    /\ Collated /\ args.task = "sentence_ranking" /\ args.num_classes = 2
    /\ Len(sample.id) = 2
    /\ \A p \in 1..2 : sample.src_lengths[2][p] > sample.src_lengths[1][p]
    /\ sample.ntokens = sample.src_lengths[1][1] + sample.src_lengths[1][2]
    /\ sample.ntokens < sample.src_lengths[2][1] + sample.src_lengths[2][2]

----------------------------------------------------------------------------
(* Label files and dictionary files of a HuBERT corpus *)

\* the label written for frame f of manifest line m
LabelSymbol(m, f) == 10 * m + f

\* the label entry of manifest line m: one label per frame for a frame-level
\* stream, two labels for a sequence-level one
LabelEntry(m, L, a) ==
    IF a.label_rate = -1 THEN <<LabelSymbol(m, 1), LabelSymbol(m, 2)>>
    ELSE [f \in 1..((L * a.label_rate) \div a.sample_rate) |-> LabelSymbol(m, f)]

\* every label that n entries of at most maxS samples can hold, in file order
Vocabulary(n, maxS) ==
    [p \in 1..(n * maxS) |->
        LabelSymbol(((p - 1) \div maxS) + 1, ((p - 1) % maxS) + 1)]

\* dict.<label>.txt: absent, listing every label, or lacking one label
AbsentDictFile == [exists |-> FALSE, symbols |-> <<>>]
FullDictFile(n, maxS) == [exists |-> TRUE, symbols |-> Vocabulary(n, maxS)]
LackingDictFile(n, maxS) ==
    [exists |-> TRUE,
     symbols |-> SelectSeq(Vocabulary(n, maxS),
                           LAMBDA sym : sym # LabelSymbol(1, 2))]

\* a manifest of n entries with one label stream, whose label file has a
\* line per entry or lacks the last line
HubertCorpora(a, n, maxS, dictFiles) ==
    {[input0 |-> <<>>, options |-> <<>>, sizes |-> sz,
      labels |-> <<[m \in 1..lines |-> LabelEntry(m, sz[m], a)]>>,
      dicts |-> <<df>>] :
        sz \in [1..n -> 1..maxS], lines \in {n - 1, n}, df \in dictFiles}

----------------------------------------------------------------------------
(* The validation runs *)

SizeSeqs == [1..NumExamples -> 1..MaxSize]

\* the loaded ensemble, as the max_positions() of its models: one model, or
\* two of which the second has the smaller target bound
Ensembles ==
    {<<(<<MaxSize, MaxSize>>)>>,
     <<(<<MaxSize, MaxSize>>), (<<MaxSize, MaxSize - 1>>)>>}

RankingCorpus ==
    [input0 |-> <<1, 2>>, options |-> <<(<<2, 1>>)>>, sizes |-> <<>>,
     labels |-> <<>>, dicts |-> <<[exists |-> TRUE, symbols |-> <<5, 6>>]>>]

ValidateArgs ==
    {[DefaultArgs EXCEPT !.task = t, !.seed = sd, !.no_shuffle = ns,
                         !.max_tokens = mt, !.max_sentences = ms,
                         !.required_batch_size_multiple = mult,
                         !.skip_invalid_size_inputs_valid_test = skip,
                         !.max_source_positions = mp,
                         !.min_sample_size = mn, !.pad_audio = pa,
                         !.random_crop = ~pa] :
        t \in {"translation", "hubert_pretraining", "sentence_ranking"},
        sd \in {0, 1}, ns \in BOOLEAN, mt \in {None, 2, 4}, ms \in {None, 2},
        mult \in {1, 2}, skip \in BOOLEAN, mp \in {2, 1024},
        mn \in {None, 2}, pa \in BOOLEAN}

\* the HuBERT task is run with its defaults (pad_audio=False,
\* random_crop=True, no min_sample_size) and, with min_sample_size set, both
\* so and as pad_audio=True, random_crop=False ("hubert v1"); the other tasks
\* do not read these options
Init ==
    /\ args \in ValidateArgs
    /\ args.task # "translation" => args.max_source_positions = 1024
    /\ args.task # "hubert_pretraining" =>
          args.min_sample_size = None /\ ~args.pad_audio
    /\ args.min_sample_size = None => ~args.pad_audio
    /\ corpus \in CASE args.task = "sentence_ranking" -> {RankingCorpus}
                    [] args.task = "hubert_pretraining" ->
                         HubertCorpora(args, NumExamples, MaxSize,
                             {AbsentDictFile, FullDictFile(NumExamples, MaxSize)})
                    [] OTHER ->
                         {[input0 |-> <<>>, options |-> <<>>, sizes |-> sz,
                           labels |-> <<>>, dicts |-> <<>>] : sz \in SizeSeqs}
    /\ modelMax \in Ensembles
    /\ rng = 0
    /\ pc = "start"
    /\ dataset = EmptyDataset
    /\ effMax = Unresolved
    /\ error = NoError
    /\ visible = <<>>
    /\ excluded = 0
    /\ batches = <<>>
    /\ itr = <<>>
    /\ handed = <<>>
    /\ item = NoItem
    /\ prevItem = NoItem
    /\ run = 1
    /\ first = NoFirst
    /\ dictionaries = SetupTask(args, corpus)
    /\ fetched = <<>>
    /\ sample = NoSample

Next == LoadDataset \/ GetBatchIterator \/ ValidStep \/ Finish \/ Rerun

Spec == Init /\ [][Next]_vars

----------------------------------------------------------------------------
(* Properties of the validation runs *)

Built == pc \in {"iterating", "done"}
Resolved == pc \in {"iterating", "done", "failed"} /\ effMax # Unresolved
\* the size every field of the effective max_positions admits
Limit == Min(effMax[1], effMax[2])
DefaultFilter == args.task # "hubert_pretraining"

TokensOf(batch) == Sum(SizesOf(batch, dataset.sizes))
NumOversized ==
    Cardinality({i \in 0..(dataset.n - 1) : dataset.sizes[i + 1] > Limit})
WithinLimit ==
    SelectSeq(dataset.order, LAMBDA i : dataset.sizes[i + 1] <= Limit)

WithinBudget(batch) ==
    /\ args.max_tokens # None => TokensOf(batch) <= args.max_tokens
    /\ args.max_sentences # None => Len(batch) <= args.max_sentences

C3_OrderedPartition ==
    /\ Built =>
        /\ \A j \in 1..Len(batches) : batches[j] # <<>>
        /\ Flatten(batches) = visible
        /\ Flatten(handed \o itr) = visible
        /\ \A p, q \in 1..Len(visible) : visible[p] = visible[q] => p = q
        /\ \A p, q \in 1..Len(dataset.order) :
              (p < q /\ dataset.order[p] \in Range(visible)
                     /\ dataset.order[q] \in Range(visible)) =>
                 \E vp, vq \in 1..Len(visible) :
                    /\ vp < vq
                    /\ visible[vp] = dataset.order[p]
                    /\ visible[vq] = dataset.order[q]
    /\ pc = "done" => Flatten(handed) = visible

\* a finished run that shuffled, dropped an index and handed out two batches
C3_Witness ==
    /\ pc = "done" /\ Len(handed) >= 2 /\ excluded > 0
    /\ dataset.order # Arange(dataset.n)

\* C4 as stated: with skipping disabled, an index over the effective
\* max_positions makes the run fail with OversizedExampleError naming the
\* index and its size, and no batch is produced - whatever the task.
C4_OversizedAlwaysFails ==
    (Resolved /\ ~args.skip_invalid_size_inputs_valid_test /\ NumOversized > 0) =>
        /\ pc = "failed"
        /\ error.kind = "OversizedExampleError"
        /\ error.index \in Range(dataset.order)
        /\ error.size = dataset.sizes[error.index + 1]
        /\ error.size > Limit
        /\ batches = <<>> /\ handed = <<>>

\* C4, amended: with skipping disabled and a task that uses the default size
\* filter, an index over the effective max_positions makes the run fail with
\* OversizedExampleError naming the first such index in order and its size,
\* and no batch is produced; the HuBERT task, whose filter returns the indices
\* unchanged, never fails on a size.
C4_OversizedFailsDefaultFilter ==
    /\ (Resolved /\ DefaultFilter /\ ~args.skip_invalid_size_inputs_valid_test
            /\ NumOversized > 0) =>
        /\ pc = "failed"
        /\ error.kind = "OversizedExampleError"
        /\ error.index \in Range(dataset.order)
        /\ error.size = dataset.sizes[error.index + 1]
        /\ error.size > Limit
        /\ \A p, q \in 1..Len(dataset.order) :
              (dataset.order[q] = error.index /\ p < q) =>
                 dataset.sizes[dataset.order[p] + 1] <= Limit
        /\ batches = <<>> /\ handed = <<>>
    /\ ~DefaultFilter => error.kind # "OversizedExampleError"

\* a translation run that failed on an oversized example
C4_Witness ==
    /\ pc = "failed" /\ args.task = "translation"
    /\ error.kind = "OversizedExampleError"
    /\ ~args.skip_invalid_size_inputs_valid_test

\* C5 as stated: with skipping enabled every index over the effective
\* max_positions is excluded, nothing is raised, batches are built from the
\* rest and the reported count is the number of oversized indices - whatever
\* the task.
C5_SkipExcludesAlways ==
    (Resolved /\ args.skip_invalid_size_inputs_valid_test) =>
        /\ pc # "failed" /\ error = NoError
        /\ visible = WithinLimit
        /\ excluded = NumOversized
        /\ Flatten(batches) = WithinLimit

\* C5, amended: the same for a task that uses the default size filter; the
\* HuBERT task excludes nothing and reports no exclusion.
C5_SkipExcludesDefaultFilter ==
    /\ (Resolved /\ DefaultFilter /\ args.skip_invalid_size_inputs_valid_test) =>
        /\ pc # "failed" /\ error = NoError
        /\ visible = WithinLimit
        /\ excluded = NumOversized
        /\ Flatten(batches) = WithinLimit
    /\ (Resolved /\ ~DefaultFilter) =>
        /\ visible = dataset.order
        /\ excluded = 0

\* a finished translation run that skipped an example and batched the rest
C5_Witness ==
    /\ pc = "done" /\ args.task = "translation"
    /\ args.skip_invalid_size_inputs_valid_test
    /\ excluded >= 1 /\ Len(handed) >= 1

\* C6 as stated: for every task, every index placed in a batch has a size of
\* at most the effective max_positions.
C6_BatchedWithinLimitAlways ==
    Built => \A j \in 1..Len(batches) : \A p \in 1..Len(batches[j]) :
                dataset.sizes[batches[j][p] + 1] <= Limit

\* C6, amended: for a task that uses the default size filter every batched
\* index has a size of at most the effective max_positions; for the HuBERT
\* task no index is checked: the run never fails on a size and every index of
\* the dataset is batched, whatever its size.
C6_BatchedWithinLimitDefaultFilter ==
    /\ (Built /\ DefaultFilter) =>
          \A j \in 1..Len(batches) : \A p \in 1..Len(batches[j]) :
              dataset.sizes[batches[j][p] + 1] <= Limit
    /\ (Resolved /\ ~DefaultFilter) =>
          /\ pc # "failed"
          /\ Flatten(batches) = dataset.order

\* a finished translation run with a dropped index and a batch of two
C6_Witness ==
    /\ pc = "done" /\ args.task = "translation" /\ excluded > 0
    /\ \E j \in 1..Len(handed) : Len(handed[j]) >= 2

\* C7: every batch but the last holds a multiple of
\* required_batch_size_multiple indices, in the builder's list and in the
\* order the batches are handed out.
C7_RequiredMultiple ==
    Built =>
        /\ \A j \in 1..(Len(batches) - 1) :
              Len(batches[j]) % args.required_batch_size_multiple = 0
        /\ \A j \in 1..(Len(handed \o itr) - 1) :
              Len((handed \o itr)[j]) % args.required_batch_size_multiple = 0

\* a finished run with multiple 2 whose last batch is short
C7_Witness ==
    /\ pc = "done" /\ args.required_batch_size_multiple = 2
    /\ Len(handed) >= 2
    /\ Len(handed[Len(handed)]) = 1

\* C8: the permutation drawn at load time holds every index of [0, N) exactly
\* once, and so does the order in which the dataset presents its indices: the
\* shuffled dataset has exactly N visible indices.
C8_ShuffleIsBijection ==
    pc \in {"loaded", "iterating", "done"} =>
        /\ IsPermutation(dataset.shuffle, dataset.n)
        /\ IsPermutation(dataset.order, dataset.n)
        /\ \A p, q \in 1..dataset.n :
              dataset.order[p] = dataset.order[q] => p = q

\* a loaded sentence-ranking split whose order is not the natural one
C8_Witness ==
    /\ pc = "loaded" /\ args.task = "sentence_ranking" /\ ~args.no_shuffle
    /\ dataset.n >= 2
    /\ dataset.order # Arange(dataset.n)

\* C9: a second run of the same command on the same corpus, started with the
\* numpy generator in another state, ends as the first did: same permutation,
\* same order, same batches in the same order, same outcome.
C9_SameSeedSameBatches ==
    (run = 2 /\ pc \in {"done", "failed"}) =>
        /\ pc = first.pc
        /\ dataset.shuffle = first.shuffle
        /\ dataset.order = first.order
        /\ batches = first.batches
        /\ handed = first.handed
        /\ error = first.error

\* a finished second run that shuffled and handed out two batches
C9_Witness ==
    /\ run = 2 /\ pc = "done" /\ rng # 0 /\ ~args.no_shuffle
    /\ Len(handed) >= 2
    /\ dataset.order # Arange(dataset.n)

----------------------------------------------------------------------------
(* Validation runs that read the batches through parallel reader workers *)

WorkerArgs ==
    {[DefaultArgs EXCEPT !.task = t, !.no_shuffle = ns,
                         !.max_tokens = mt, !.max_sentences = ms,
                         !.required_batch_size_multiple = mult,
                         !.skip_invalid_size_inputs_valid_test = TRUE,
                         !.num_workers = nw] :
        t \in {"translation", "hubert_pretraining"}, ns \in BOOLEAN,
        mt \in {None, 2, 4}, ms \in {None, 2}, mult \in {1, 2},
        nw \in {0, 1, 2}}

InitWorkers ==
    /\ args \in WorkerArgs
    /\ corpus \in IF args.task = "hubert_pretraining"
                  THEN HubertCorpora(args, NumExamples, MaxSize,
                                     {FullDictFile(NumExamples, MaxSize)})
                  ELSE {[input0 |-> <<>>, options |-> <<>>, sizes |-> sz,
                         labels |-> <<>>, dicts |-> <<>>] : sz \in SizeSeqs}
    /\ modelMax \in Ensembles
    /\ rng = 0
    /\ pc = "start"
    /\ dataset = EmptyDataset
    /\ effMax = Unresolved
    /\ error = NoError
    /\ visible = <<>>
    /\ excluded = 0
    /\ batches = <<>>
    /\ itr = <<>>
    /\ handed = <<>>
    /\ item = NoItem
    /\ prevItem = NoItem
    /\ run = 1
    /\ first = NoFirst
    /\ dictionaries = SetupTask(args, corpus)
    /\ fetched = <<>>
    /\ sample = NoSample

NextWorkers ==
    LoadHubert \/ LoadTranslation \/ GetBatchIterator \/ WorkerFetch
        \/ ValidStep \/ Finish

SpecWorkers == InitWorkers /\ [][NextWorkers]_vars

\* the statements of main run one after the other and a reader worker that
\* has an element to realise realises it: the main process takes the step it
\* is at, and so does a reader
MainStep == LoadHubert \/ LoadTranslation \/ GetBatchIterator \/ ValidStep
                \/ Finish

SpecLive == SpecWorkers /\ WF_vars(MainStep) /\ WF_vars(WorkerFetch)

\* C11: with one or two reader workers realising elements in any
\* interleaving, the batches stay those the builder computes once from the
\* filtered indices, the batches handed out so far followed by those still
\* to come are these batches in the builder's order, no worker has realised
\* more of a batch than its indices, and no step taken while the batches are
\* read changes the dataset (its order, permutation and sizes), the visible
\* indices or the batches.
C11_WorkersKeepBatches ==
    /\ [](Built =>
            /\ batches = BatchBySize(visible, dataset.sizes, args.max_tokens,
                                     args.max_sentences,
                                     args.required_batch_size_multiple)
            /\ handed \o itr = batches
            /\ Len(fetched) = Len(batches)
            /\ \A j \in 1..Len(batches) : fetched[j] <= Len(batches[j]))
    /\ [][pc = "iterating" =>
            /\ dataset' = dataset
            /\ visible' = visible
            /\ batches' = batches]_vars

\* two workers at work: the second batch is complete while the first, of two
\* indices or more, is not, and nothing has been handed out yet
C11_Witness ==
    /\ pc = "iterating" /\ args.num_workers = 2
    /\ Len(batches) >= 2 /\ handed = <<>>
    /\ Len(batches[1]) >= 2
    /\ fetched[1] = 1
    /\ fetched[2] = Len(batches[2])

----------------------------------------------------------------------------
(* The HuBERT corpora and configurations *)

\* number of manifest entries, largest number of samples of an entry
HubertExamples == 2
MaxSamples == 6

HubertArgs ==
    {[DefaultArgs EXCEPT !.task = "hubert_pretraining", !.pad_audio = pa,
                         !.random_crop = rc, !.max_sample_size = mx,
                         !.min_sample_size = mn, !.label_rate = lr] :
        pa \in BOOLEAN, rc \in BOOLEAN, mx \in {None, 4}, mn \in {None, 2},
        lr \in {-1, 2, 3}}

InitHubert ==
    /\ args \in HubertArgs
    /\ corpus \in HubertCorpora(args, HubertExamples, MaxSamples,
                    {AbsentDictFile, FullDictFile(HubertExamples, MaxSamples),
                     LackingDictFile(HubertExamples, MaxSamples)})
    /\ modelMax = <<(<<MaxSize, MaxSize>>)>>
    /\ rng = 0
    /\ pc = "start"
    /\ dataset = EmptyDataset
    /\ effMax = Unresolved
    /\ error = NoError
    /\ visible = <<>>
    /\ excluded = 0
    /\ batches = <<>>
    /\ itr = <<>>
    /\ handed = <<>>
    /\ item = NoItem
    /\ prevItem = NoItem
    /\ run = 1
    /\ first = NoFirst
    /\ dictionaries = SetupTask(args, corpus)
    /\ fetched = <<>>
    /\ sample = NoSample

NextHubert == LoadHubert \/ HubertGetItem

SpecHubert == InitHubert /\ [][NextHubert]_vars

AccessedTwice == pc = "loaded" /\ item.index # None /\ prevItem.index = item.index

\* C10 as stated: two accesses of the same index return the same example,
\* same crop window and same label sub-sequences, whatever the configuration.
C10_SameIndexSameExample ==
    AccessedTwice => item = prevItem

\* C10, amended: two accesses of the same index return the same example
\* unless a crop start is drawn, that is unless random_crop is enabled,
\* pad_audio is disabled and the input is longer than max_sample_size; in that
\* case both accesses return a window of the same length max_sample_size that
\* lies within the input, with the labels of its own window, but the start
\* may differ.
C10_SameExampleUnlessCropDrawn ==
    AccessedTwice =>
        LET L == dataset.lengths[item.index + 1] IN
        /\ ~(args.random_crop /\ ~args.pad_audio
                /\ args.max_sample_size # None /\ L > args.max_sample_size)
             => item = prevItem
        /\ item.length = prevItem.length
        /\ 0 <= item.start /\ item.start + item.length <= L
        /\ 0 <= prevItem.start /\ prevItem.start + prevItem.length <= L

\* an input longer than max_sample_size read twice with random_crop disabled
C10_Witness ==
    /\ AccessedTwice
    /\ ~args.random_crop /\ ~args.pad_audio /\ args.label_rate > 0
    /\ args.max_sample_size # None
    /\ dataset.lengths[item.index + 1] > args.max_sample_size
    /\ item.start = 0 /\ item.length = args.max_sample_size
    /\ Len(item.label_list[1]) >= 1

----------------------------------------------------------------------------
(* Properties of label encoding and of crop/label alignment *)

HubertAccessed ==
    args.task = "hubert_pretraining" /\ pc \in {"loaded", "failed"}
        /\ item.index # None

\* the raw labels of stream k that go with the crop window of the realised
\* example
ItemLabels(k) ==
    LabelSlice(corpus.labels[k][dataset.kept[item.index + 1]],
               item.start, item.length, dataset.kw)

\* C16: whatever labels have been encoded, known tokens or not, every
\* dictionary still holds exactly the symbols of its file, at the same ids;
\* and a returned sequence has one id per token of the label: as long as the
\* label, each id that of the token at its place, no reserved id among them
\* (no end-of-sequence id appended).
C16_EncoderLeavesDictionary ==
    /\ dictionaries = DictionariesFactory(corpus)
    /\ HubertAccessed =>
          \A k \in 1..Len(item.label_list) :
              LET ids == item.label_list[k]
                  label == ItemLabels(k)
              IN  /\ Len(ids) = Len(label)
                  /\ \A p \in 1..Len(ids) :
                        /\ ids[p] >= NSpecial
                        /\ corpus.dicts[k].symbols[ids[p] - NSpecial + 1]
                             = label[p]

\* labels encoded with a dictionary that lacks a symbol of the label file:
\* one access returned two ids, a later one met the absent symbol
C16_Witness ==
    /\ HubertAccessed /\ pc = "failed" /\ error.kind = "UnknownSymbolError"
    /\ Len(item.label_list[1]) >= 2
    /\ ~HasSymbol(corpus.dicts[1].symbols, LabelSymbol(1, 2))
    /\ dictionaries[1].symbols = corpus.dicts[1].symbols

\* C17: a label with a token absent from the dictionary is never returned
\* encoded: no returned sequence stands for a label with an absent token and
\* none holds the unknown id; the access that meets such a label fails, with
\* UnknownSymbolError and nothing else.
C17_UnknownSymbolFails ==
    /\ HubertAccessed =>
          \A k \in 1..Len(item.label_list) :
              /\ \A p \in 1..Len(ItemLabels(k)) :
                    HasSymbol(corpus.dicts[k].symbols, ItemLabels(k)[p])
              /\ \A p \in 1..Len(item.label_list[k]) :
                    item.label_list[k][p] # UnkIndex
    /\ (args.task = "hubert_pretraining" /\ pc = "failed"
            /\ dataset # EmptyDataset) =>
          /\ error = UnknownSymbolError
          /\ \E i \in 1..dataset.n : \E p \in 1..Len(corpus.labels[1][dataset.kept[i]]) :
                ~HasSymbol(corpus.dicts[1].symbols,
                           corpus.labels[1][dataset.kept[i]][p])

\* an access failed on a label holding the symbol the dictionary lacks
C17_Witness ==
    /\ args.task = "hubert_pretraining"
    /\ pc = "failed" /\ error.kind = "UnknownSymbolError"
    /\ dataset # EmptyDataset
    /\ ~HasSymbol(dictionaries[1].symbols, LabelSymbol(1, 2))
    /\ \E p \in 1..Len(corpus.labels[1][1]) :
          corpus.labels[1][1][p] = LabelSymbol(1, 2)

\* C18 as stated: a label stream whose dictionary file is absent has no
\* dictionary, loading a split for it succeeds (given an aligned label file)
\* and its labels come out of an access as they are in the label file.
C18_AbsentDictionaryLoads ==
    (args.task = "hubert_pretraining"
        /\ \A k \in 1..Len(corpus.labels) :
              Len(corpus.labels[k]) = Len(corpus.sizes)) =>
        \A k \in 1..Len(corpus.dicts) :
            ~corpus.dicts[k].exists =>
                /\ ~dictionaries[k].present
                /\ pc # "failed"
                /\ HubertAccessed => item.label_list[k] = ItemLabels(k)

\* some label file has not one line for every entry of the manifest
LabelsMisaligned ==
    \E k \in 1..Len(corpus.labels) : Len(corpus.labels[k]) # Len(corpus.sizes)

\* C19 as stated: when a label file's line count differs from the number of
\* manifest entries, load_dataset fails with MisalignedCorpusError, and no
\* batch is built or handed out and no index accessed, in any state of the
\* run.
C19_MisalignedFailsAtLoad ==
    (args.task = "hubert_pretraining" /\ LabelsMisaligned) =>
        /\ pc \in {"start", "failed"}
        /\ pc = "failed" => error = MisalignedCorpusError
        /\ dataset = EmptyDataset
        /\ batches = <<>> /\ handed = <<>> /\ item = NoItem

\* C20: for a stream with a positive label rate, the labels returned with the
\* crop [start, start + length) are those of the frames [lo, hi), where lo is
\* the whole number with lo * ratio <= start < (lo + 1) * ratio and hi the one
\* with hi * ratio <= start + length < (hi + 1) * ratio, ratio being
\* sample_rate / label_rate; at 16000 samples and 50 labels a second the crop
\* [3200, 6400) goes with the frames [10, 20).
C20_CropLabelAlignment ==
    /\ LabelRange(3200, 6400 - 3200, 16000, 50) = <<10, 20>>
    /\ (HubertAccessed /\ args.label_rate > 0) =>
          \A k \in 1..Len(item.label_list) :
              LET sr == args.sample_rate
                  lr == args.label_rate
                  end == item.start + item.length
                  lo == CHOOSE x \in 0..item.start :
                            x * sr <= item.start * lr
                                /\ item.start * lr < (x + 1) * sr
                  hi == CHOOSE x \in 0..end :
                            x * sr <= end * lr /\ end * lr < (x + 1) * sr
                  entry == corpus.labels[k][dataset.kept[item.index + 1]]
              IN  /\ Len(item.label_list[k]) = hi - lo
                  /\ \A p \in 1..(hi - lo) :
                        corpus.dicts[k].symbols
                            [item.label_list[k][p] - NSpecial + 1]
                          = entry[lo + p]

\* a crop drawn past the start of the input, at a ratio that is not a whole
\* number, whose labels start past the first frame
C20_Witness ==
    /\ HubertAccessed /\ args.label_rate = 3 /\ args.sample_rate = 4
    /\ item.start = 2 /\ item.length = 4
    /\ Len(item.label_list[1]) = 3
    /\ corpus.dicts[1].symbols[item.label_list[1][1] - NSpecial + 1]
         = LabelSymbol(dataset.kept[item.index + 1], 2)

\* the manifest lines (from 1) whose input is shorter than min_sample_size
TooShort ==
    {m \in 1..Len(corpus.sizes) : corpus.sizes[m] < args.min_sample_size}

\* C22: the crop window of a realised HuBERT example of L samples has length
\* C and start s with: C = L when pad_audio is set (the whole input, from 0)
\* or max_sample_size is not set; else C = min(L, max_sample_size); when the
\* input is longer than C and random_crop is off the window starts at 0, and
\* in every case 0 <= s and s + C <= L.
C22_CropWindow ==
    HubertAccessed =>
        LET L == corpus.sizes[dataset.kept[item.index + 1]]
            C == item.length
            mx == args.max_sample_size
        IN  /\ args.pad_audio => C = L /\ item.start = 0
            /\ (~args.pad_audio /\ mx = None) => C = L
            /\ (~args.pad_audio /\ mx # None) =>
                  /\ C <= L /\ C <= mx
                  /\ C = L \/ C = mx
            /\ (~args.pad_audio /\ L > C /\ ~args.random_crop) => item.start = 0
            /\ 0 <= item.start
            /\ item.start + C <= L

\* a window of max_sample_size samples drawn past the start of a longer input
C22_Witness ==
    /\ HubertAccessed /\ ~args.pad_audio /\ args.random_crop
    /\ args.max_sample_size # None
    /\ corpus.sizes[dataset.kept[item.index + 1]] > args.max_sample_size
    /\ item.length = args.max_sample_size
    /\ item.start > 0

\* C23: with min_sample_size set, the index of a HuBERT split holds exactly
\* the manifest entries of at least min_sample_size samples, in manifest
\* order, under pad_audio and under random_crop alike; no position of the
\* dataset, no index in the order, among the visible indices, in a batch or
\* in a batch handed out refers to a shorter entry.
C23_MinSampleSizeFiltered ==
    (args.task = "hubert_pretraining" /\ pc \in {"loaded", "iterating", "done"}
        /\ args.min_sample_size # None) =>
        LET entry(i) == dataset.kept[i + 1]
        IN  /\ dataset.n = Len(corpus.sizes) - Cardinality(TooShort)
            /\ Len(dataset.kept) = dataset.n
            /\ \A p \in 1..dataset.n :
                  /\ dataset.kept[p] \in (1..Len(corpus.sizes)) \ TooShort
                  /\ dataset.lengths[p] = corpus.sizes[dataset.kept[p]]
                  /\ dataset.lengths[p] >= args.min_sample_size
            /\ \A p, q \in 1..dataset.n :
                  p < q => dataset.kept[p] < dataset.kept[q]
            /\ \A p \in 1..Len(dataset.order) :
                  entry(dataset.order[p]) \notin TooShort
            /\ \A p \in 1..Len(visible) : entry(visible[p]) \notin TooShort
            /\ \A j \in 1..Len(batches) : \A p \in 1..Len(batches[j]) :
                  entry(batches[j][p]) \notin TooShort
            /\ \A j \in 1..Len(handed) : \A p \in 1..Len(handed[j]) :
                  entry(handed[j][p]) \notin TooShort

\* a finished run with pad_audio set whose manifest has a short entry in the
\* middle: two entries are left and both were handed out
C23_Witness ==
    /\ args.task = "hubert_pretraining" /\ pc = "done"
    /\ args.min_sample_size = 2 /\ args.pad_audio
    /\ corpus.sizes[2] = 1 /\ corpus.sizes[1] >= 2 /\ corpus.sizes[3] >= 2
    /\ dataset.n = 2 /\ dataset.kept = <<1, 3>>
    /\ Len(Flatten(handed)) = 2

\* C24: the max_positions handed to the batch builder has the task's two
\* fields and is, field by field, the minimum over the task's declared
\* maximum and the declared maximum of every model of the ensemble: it is
\* within every consumer's bound and equal to one of them; for the HuBERT
\* task, which declares (sys.maxsize, sys.maxsize), it is the minimum over
\* the models alone.
C24_EffectiveIsFieldwiseMin ==
    Resolved =>
        LET declared ==
                IF args.task = "hubert_pretraining"
                THEN <<SysMaxsize, SysMaxsize>>
                ELSE <<args.max_source_positions, args.max_target_positions>>
        IN  /\ Len(effMax) = 2
            /\ \A f \in 1..2 :
                  /\ effMax[f] <= declared[f]
                  /\ \A m \in 1..Len(modelMax) : effMax[f] <= modelMax[m][f]
                  /\ \/ effMax[f] = declared[f]
                     \/ \E m \in 1..Len(modelMax) : effMax[f] = modelMax[m][f]
                  /\ args.task = "hubert_pretraining" =>
                        \E m \in 1..Len(modelMax) : effMax[f] = modelMax[m][f]

\* a finished translation run whose source bound comes from the task and
\* whose target bound comes from the second model of the ensemble
C24_Witness ==
    /\ pc = "done" /\ args.task = "translation"
    /\ Len(modelMax) = 2
    /\ args.max_source_positions < modelMax[1][1]
    /\ modelMax[2][2] < modelMax[1][2]
    /\ effMax = <<args.max_source_positions, modelMax[2][2]>>
    /\ Len(handed) >= 1

====
